---- MODULE Spec2Model ----
(***************************************************************************)
(* A model of src/main.py: generate_invoice_pdf and format_currency.       *)
(*                                                                         *)
(* Lengths are in tenths of a point (inch = 720) so that every coordinate  *)
(* the program computes (0.2 inch, 0.55 inch, ...) is an integer.          *)
(* A Decimal is a record [m, e] standing for m * 10^(-e), with m and e     *)
(* natural numbers: the model covers non-negative quantities, rates and    *)
(* tax rates.                                                              *)
(***************************************************************************)
EXTENDS Integers, Sequences, FiniteSets, TLC

VARIABLES data, pc, calls, y_pos, tax_rate, subtotal, tax_amount, total,
          table_data, table_height, stderr, stdout, exit_code, failed_at

vars == <<data, pc, calls, y_pos, tax_rate, subtotal, tax_amount, total,
          table_data, table_height, stderr, stdout, exit_code, failed_at>>

(***************************************************************************)
(* Bounds of the model.                                                    *)
(***************************************************************************)
MaxItems == 2
MaxLines == 8

(***************************************************************************)
(* Page geometry, lines 28 and 35-40.                                      *)
(***************************************************************************)
inch == 720
PAGE_WIDTH == 6120
PAGE_HEIGHT == 7920
TOP_MARGIN == PAGE_HEIGHT - inch
BOTTOM_MARGIN == inch
LEFT_MARGIN == inch
RIGHT_MARGIN == PAGE_WIDTH - inch
CONTENT_WIDTH == PAGE_WIDTH - (2 * inch)

(***************************************************************************)
(* Mappings (Python dicts) are functions; d.get(k, default).               *)
(***************************************************************************)
EmptyMap == [k \in {} |-> ""]

Get(d, k, default) == IF k \in DOMAIN d THEN d[k] ELSE default

\* Truth value of a dict and of a list, as all([...]) takes it.
DictTruthy(d) == DOMAIN d # {}

\* A validation that does not look at the items.
ListAlwaysTruthy(l) == TRUE

ListTruthy(l) == Len(l) # 0

(***************************************************************************)
(* Exact decimals.                                                         *)
(***************************************************************************)
RECURSIVE Pow10(_)
Pow10(n) == IF n = 0 THEN 1 ELSE 10 * Pow10(n - 1)

Dec(m, e) == [m |-> m, e |-> e]

Max(a, b) == IF a >= b THEN a ELSE b

\* Decimal multiplication: coefficients multiply, exponents add.
DecMul(a, b) == Dec(a.m * b.m, a.e + b.e)

\* Decimal addition: the result takes the smaller exponent (more digits).
DecAdd(a, b) ==
    LET e == Max(a.e, b.e)
    IN  Dec(a.m * Pow10(e - a.e) + b.m * Pow10(e - b.e), e)

\* a / Decimal(100): exact; the quotient's exponent is brought as close to
\* the dividend's as the digits allow (10 / 100 = 0.1, 0.0 / 100 = 0.0).
RECURSIVE Reduce(_, _, _)
Reduce(m, e, ideal) ==
    IF e > ideal /\ m % 10 = 0 THEN Reduce(m \div 10, e - 1, ideal) ELSE Dec(m, e)

DecDiv100(a) == IF a.m = 0 THEN Dec(0, a.e) ELSE Reduce(a.m, a.e + 2, a.e)

\* The rounding of the default decimal context, ROUND_HALF_EVEN, which
\* Decimal.__format__ applies for the ".2f" presentation.
RoundHalfEven2(a) ==
    IF a.e <= 2
    THEN a.m * Pow10(2 - a.e)
    ELSE LET D == Pow10(a.e - 2)
             q == a.m \div D
             r == a.m % D
         IN  IF 2 * r > D \/ (2 * r = D /\ q % 2 = 1) THEN q + 1 ELSE q

\* A quantize that leaves the rounding to the context (ROUND_HALF_EVEN).
QuantizeHalfEven(a) == Dec(RoundHalfEven2(a), 2)

\* x.quantize(Decimal("0.01"), rounding=ROUND_HALF_UP)
QuantizeHalfUp(a) ==
    IF a.e <= 2
    THEN Dec(a.m * Pow10(2 - a.e), 2)
    ELSE LET D == Pow10(a.e - 2)
             q == a.m \div D
             r == a.m % D
         IN  Dec(IF 2 * r >= D THEN q + 1 ELSE q, 2)

(***************************************************************************)
(* Text.                                                                   *)
(***************************************************************************)
RECURSIVE ZeroPad(_, _)
ZeroPad(s, width) == IF Len(s) >= width THEN s ELSE ZeroPad("0" \o s, width)

\* The ',' option: groups of three digits.
RECURSIVE Grouped(_)
Grouped(n) ==
    IF n < 1000 THEN ToString(n)
    ELSE Grouped(n \div 1000) \o "," \o ZeroPad(ToString(n % 1000), 3)

\* str(Decimal): all the digits the value carries.
DecStr(a) ==
    IF a.e = 0 THEN ToString(a.m)
    ELSE ToString(a.m \div Pow10(a.e)) \o "." \o
         ZeroPad(ToString(a.m % Pow10(a.e)), a.e)

\* f"{symbol}{value:,.2f}"
format_currency(value, symbol) ==
    LET cents == RoundHalfEven2(value)
    IN  symbol \o Grouped(cents \div 100) \o "." \o ZeroPad(ToString(cents % 100), 2)

(***************************************************************************)
(* Input values.  A numeric field as the TOML loader hands it over: ok     *)
(* tells whether Decimal(str(x)) accepts the text of the value; m and e    *)
(* are the digits of that text.                                            *)
(***************************************************************************)
Num(m, e) == [ok |-> TRUE, m |-> m, e |-> e]

NotANumber == [ok |-> FALSE, m |-> 0, e |-> 0]

\* Decimal(str(x)) of a value that parses.
ToDecimal(x) == Dec(x.m, x.e)

Restrict(f, S) == [k \in S |-> f[k]]

ItemPool ==
    { [description |-> "Widget", quantity |-> Num(2, 0), rate |-> Num(999, 2)],
      [description |-> "Consulting", quantity |-> Num(1, 0), rate |-> Num(125, 3)],
      [description |-> "Stickers", quantity |-> Num(3, 0), rate |-> Num(1, 1)],
      [description |-> "Label", quantity |-> Num(1, 0), rate |-> Num(5, 2)],
      [rate |-> Num(12345, 1)],
      [description |-> "Hours", quantity |-> Num(15, 1)],
      [description |-> "Broken", quantity |-> NotANumber, rate |-> Num(1, 0)] }

ItemLists == UNION { [1..n -> ItemPool] : n \in 0..MaxItems }

Senders == { EmptyMap, [name |-> "Acme"] }

Clients == { EmptyMap, [name |-> "Bob", address |-> <<"1 Main St", "Springfield">>] }

Invoices ==
    { EmptyMap,
      [number |-> "42"],
      [number |-> "7", issue_date |-> "2024-01-01", due_date |-> "2024-02-01",
       currency_symbol |-> "EUR"] }

Financials == { [tax_rate |-> r] : r \in {Num(10, 0), Num(8, 0), NotANumber} }

Terms == { [notes |-> "Net 30"] }

Keys == {"sender", "client", "invoice", "items", "financials", "terms"}

Required == {"sender", "client", "invoice", "items"}

Inputs ==
    { Restrict([sender |-> s, client |-> c, invoice |-> i, items |-> it,
                financials |-> f, terms |-> t], Keys \ absent) :
        s \in Senders, c \in Clients, i \in Invoices, it \in ItemLists,
        f \in Financials, t \in Terms,
        absent \in { A \in SUBSET Keys : Cardinality(A) <= 2 } }

Unset == Dec(0, 0)

\* The locals of generate_invoice_pdf, lines 58-63.
sender == Get(data, "sender", EmptyMap)

client == Get(data, "client", EmptyMap)

invoice_info == Get(data, "invoice", EmptyMap)

items == Get(data, "items", <<>>)

financials == Get(data, "financials", EmptyMap)

terms == Get(data, "terms", EmptyMap)

currency_symbol == Get(invoice_info, "currency_symbol", "$")

Init ==
    /\ data \in Inputs
    /\ pc = "validate"
    /\ calls = <<>>
    /\ y_pos = 0
    /\ tax_rate = Unset
    /\ subtotal = Unset
    /\ tax_amount = Unset
    /\ total = Unset
    /\ table_data = <<>>
    /\ table_height = 0
    /\ stderr = ""
    /\ stdout = ""
    /\ exit_code = -1
    /\ failed_at = ""

(***************************************************************************)
(* The except clauses, lines 211-219: every exception ends the process     *)
(* with a message on standard error and exit code 1.                       *)
(***************************************************************************)
ErrorMessage(kind, detail) ==
    CASE kind = "FileNotFoundError" ->
           "Error: Could not find the input file at the specified path."
      [] kind = "ValueError" -> detail
      [] OTHER -> "An unexpected error occurred during PDF generation: " \o detail

Raise(kind, detail) ==
    /\ pc' = "exited"
    /\ stderr' = ErrorMessage(kind, detail)
    /\ exit_code' = 1
    /\ failed_at' = pc

\* The exceptions a renderer call can end in.
RendererErrors == {"FileNotFoundError", "ValueError", "Exception"}

\* A call on the renderer.  role names what the call draws.
Call(op, role, x, y, arg) == [op |-> op, role |-> role, x |-> x, y |-> y, arg |-> arg]

\* A renderer that is saved whether or not a call raised (a finally clause).
IssueThenSaveAnyway(ops, next) ==
    \/ /\ calls' = calls \o ops
       /\ pc' = next
       /\ UNCHANGED <<stderr, exit_code, failed_at>>
    \/ \E k \in 1..Len(ops), kind \in RendererErrors :
          /\ calls' = calls \o SubSeq(ops, 1, k) \o <<Call("save", "save", 0, 0, "")>>
          /\ Raise(kind, "renderer")

\* The calls ops are issued in order; either all return and control moves
\* on, or the k-th one raises and the except clauses take over.
Issue(ops, next) ==
    \/ /\ calls' = calls \o ops
       /\ pc' = next
       /\ UNCHANGED <<stderr, exit_code, failed_at>>
    \/ \E k \in 1..Len(ops), kind \in RendererErrors :
          /\ calls' = calls \o SubSeq(ops, 1, k)
          /\ Raise(kind, "renderer")

MissingSections ==
    "Error: TOML file is missing one of the required sections: [sender], [client], [invoice], or [[items]]."

\* Lines 58-68.
Validate ==
    /\ pc = "validate"
    /\ IF DictTruthy(sender) /\ DictTruthy(client) /\ DictTruthy(invoice_info)
          /\ ListTruthy(items)
       THEN /\ pc' = "canvas"
            /\ UNCHANGED <<stderr, exit_code, failed_at>>
       ELSE Raise("ValueError", MissingSections)
    /\ UNCHANGED <<data, calls, y_pos, tax_rate, subtotal, tax_amount, total,
                   table_data, table_height, stdout>>

\* Lines 71-72.
InitCanvas ==
    /\ pc = "canvas"
    /\ Issue(<<Call("Canvas", "canvas", PAGE_WIDTH, PAGE_HEIGHT, "letter"),
               Call("setTitle", "title", 0, 0,
                    "Invoice #" \o Get(invoice_info, "number", "N/A") \o " from "
                      \o Get(sender, "name", "N/A"))>>, "header")
    /\ UNCHANGED <<data, y_pos, tax_rate, subtotal, tax_amount, total,
                   table_data, table_height, stdout>>

\* str.upper() on the sender names of the model.
Upper(s) ==
    CASE s = "Acme" -> "ACME"
      [] s = "Sender Name Missing" -> "SENDER NAME MISSING"
      [] OTHER -> s

\* Lines 75-82.
DrawHeader ==
    /\ pc = "header"
    /\ Issue(<<Call("setFont", "font", 0, 0, "Helvetica-Bold 16"),
               Call("drawString", "header", LEFT_MARGIN, TOP_MARGIN,
                    Upper(Get(sender, "name", "Sender Name Missing"))),
               Call("setFont", "font", 0, 0, "Helvetica-Bold 24"),
               Call("drawRightString", "header", RIGHT_MARGIN, TOP_MARGIN, "INVOICE"),
               Call("setFont", "font", 0, 0, "Helvetica 10"),
               Call("drawRightString", "header", RIGHT_MARGIN, TOP_MARGIN - inch \div 4,
                    "# " \o Get(invoice_info, "number", "N/A"))>>, "bill_to")
    /\ UNCHANGED <<data, y_pos, tax_rate, subtotal, tax_amount, total,
                   table_data, table_height, stdout>>

\* Lines 85-102.  The address is held as its lines; drawText draws them.
DrawBillTo ==
    /\ pc = "bill_to"
    /\ y_pos' = TOP_MARGIN - (3 * inch) \div 2
    /\ LET address == Get(client, "address", <<"Client Address Missing">>)
       IN  Issue(<<Call("setFont", "font", 0, 0, "Helvetica-Bold 10"),
                   Call("drawString", "bill_to", LEFT_MARGIN, y_pos', "Bill To:"),
                   Call("setFont", "font", 0, 0, "Helvetica 10"),
                   Call("drawString", "bill_to", LEFT_MARGIN, y_pos' - inch \div 5,
                        Get(client, "name", "Client Name Missing")),
                   Call("drawText", "bill_to", LEFT_MARGIN, y_pos' - (2 * inch) \div 5,
                        ToString(Len(address)) \o " lines")>>, "dates")
    /\ UNCHANGED <<data, tax_rate, subtotal, tax_amount, total,
                   table_data, table_height, stdout>>

\* Lines 105-118.
DrawDateBlock ==
    /\ pc = "dates"
    /\ LET info_x_pos == RIGHT_MARGIN - (3 * inch) \div 2
       IN  Issue(<<Call("setFont", "font", 0, 0, "Helvetica 10"),
                   Call("drawString", "dates", info_x_pos, y_pos, "Date:"),
                   Call("drawString", "dates", info_x_pos, y_pos - inch \div 4, "Due Date:"),
                   Call("setFont", "font", 0, 0, "Helvetica-Bold 10"),
                   Call("setFillColor", "fill_color", 0, 0, "white"),
                   Call("rect", "balance_box", info_x_pos - inch \div 10,
                        y_pos - (11 * inch) \div 20, "fill"),
                   Call("setFillColor", "fill_color", 0, 0, "black"),
                   Call("drawString", "dates", info_x_pos, y_pos - inch \div 2,
                        "Balance Due:"),
                   Call("setFont", "font", 0, 0, "Helvetica 10"),
                   Call("drawRightString", "dates", RIGHT_MARGIN, y_pos,
                        Get(invoice_info, "issue_date", "N/A")),
                   Call("drawRightString", "dates", RIGHT_MARGIN, y_pos - inch \div 4,
                        Get(invoice_info, "due_date", "N/A"))>>, "calculate")
    /\ UNCHANGED <<data, y_pos, tax_rate, subtotal, tax_amount, total,
                   table_data, table_height, stdout>>

\* Decimal(str(item.get('quantity', 0))) and the same for the rate.
RawQuantity(item) == Get(item, "quantity", Num(0, 0))

RawRate(item) == Get(item, "rate", Num(0, 0))

Parsable(item) == RawQuantity(item).ok /\ RawRate(item).ok

\* quantity * rate of one item, at full precision.
Product(item) == DecMul(ToDecimal(RawQuantity(item)), ToDecimal(RawRate(item)))

\* A subtotal summed from the products rounded to the cent.
RECURSIVE SumRoundedProducts(_, _)
SumRoundedProducts(its, n) ==
    IF n = 0 THEN Dec(0, 0)
    ELSE DecAdd(SumRoundedProducts(its, n - 1), QuantizeHalfUp(Product(its[n])))

\* The loop of lines 125-129 over the first n items.
RECURSIVE SumProducts(_, _)
SumProducts(its, n) ==
    IF n = 0 THEN Dec(0, 0)
    ELSE DecAdd(SumProducts(its, n - 1), Product(its[n]))

\* Line 131.
TaxAmount(sub, rate) == QuantizeHalfUp(DecMul(sub, DecDiv100(rate)))

\* Line 132.
Total(sub, tax) == DecAdd(sub, tax)

\* Lines 122-132.  Decimal() of a text that is no number raises
\* decimal.InvalidOperation, which the last except clause catches.
CalculateTotals ==
    /\ pc = "calculate"
    /\ LET raw == Get(financials, "tax_rate", Num(0, 1))
       IN  IF raw.ok /\ \A i \in 1..Len(items) : Parsable(items[i])
           THEN /\ tax_rate' = ToDecimal(raw)
                /\ subtotal' = SumProducts(items, Len(items))
                /\ tax_amount' = TaxAmount(subtotal', tax_rate')
                /\ total' = Total(subtotal', tax_amount')
                /\ pc' = "balance"
                /\ UNCHANGED <<stderr, exit_code, failed_at>>
           ELSE /\ Raise("Exception", "InvalidOperation")
                /\ UNCHANGED <<tax_rate, subtotal, tax_amount, total>>
    /\ UNCHANGED <<data, calls, y_pos, table_data, table_height, stdout>>

\* Lines 134-135.
DrawBalanceDue ==
    /\ pc = "balance"
    /\ Issue(<<Call("setFont", "font", 0, 0, "Helvetica-Bold 10"),
               Call("drawRightString", "balance_due", RIGHT_MARGIN, y_pos - inch \div 2,
                    format_currency(total, currency_symbol))>>, "compose")
    /\ UNCHANGED <<data, y_pos, tax_rate, subtotal, tax_amount, total,
                   table_data, table_height, stdout>>

table_header == <<"Item", "Quantity", "Rate", "Amount">>

\* Line 152.
Amount(item) == QuantizeHalfUp(Product(item))

\* Lines 150-162: the row of one item.
Row(item) ==
    <<Get(item, "description", "N/A"),
      DecStr(ToDecimal(RawQuantity(item))),
      format_currency(ToDecimal(RawRate(item)), currency_symbol),
      format_currency(Amount(item), currency_symbol)>>

\* A table whose rows come out in the reverse of the input order.
TableDataReversed(its) ==
    <<table_header>> \o [i \in 1..Len(its) |-> Row(its[Len(its) + 1 - i])]

\* Lines 146-162.
TableData(its) == <<table_header>> \o [i \in 1..Len(its) |-> Row(its[i])]

\* Lines 138-164.
ComposeTable ==
    /\ pc = "compose"
    /\ y_pos' = y_pos - (3 * inch) \div 2
    /\ table_data' = TableData(items)
    /\ pc' = "table"
    /\ UNCHANGED <<data, calls, tax_rate, subtotal, tax_amount, total,
                   table_height, stderr, stdout, exit_code, failed_at>>

\* The height the renderer measures for a row whose tallest cell wraps to
\* k lines of text.
RowHeight(k) == k * (inch \div 4)

RECURSIVE SumHeights(_, _)
SumHeights(lines, n) ==
    IF n = 0 THEN 0 ELSE SumHeights(lines, n - 1) + RowHeight(lines[n])

\* A cursor moved down by the height of single-line rows, not by the height
\* the renderer measured.
DrawTableDefaultHeight ==
    /\ pc = "table"
    /\ \E lines \in [1..(Len(table_data) - 1) -> {1, MaxLines}] :
          LET height == RowHeight(1) + SumHeights(lines, Len(table_data) - 1)
          IN  /\ table_height' = height
              /\ y_pos' = y_pos - (Len(table_data) * RowHeight(1) + inch \div 2)
              /\ Issue(<<Call("wrapOn", "table", CONTENT_WIDTH, y_pos, "table"),
                         Call("drawOn", "table", LEFT_MARGIN, y_pos - height,
                              "table")>>, "totals")
    /\ UNCHANGED <<data, tax_rate, subtotal, tax_amount, total, table_data, stdout>>

\* Lines 182-185.  wrapOn measures the table: the header row is one line,
\* every other row one line (a short description) or MaxLines lines (a
\* description that wraps).
DrawTable ==
    /\ pc = "table"
    /\ \E lines \in [1..(Len(table_data) - 1) -> {1, MaxLines}] :
          LET height == RowHeight(1) + SumHeights(lines, Len(table_data) - 1)
          IN  /\ table_height' = height
              /\ y_pos' = y_pos - (height + inch \div 2)
              /\ Issue(<<Call("wrapOn", "table", CONTENT_WIDTH, y_pos, "table"),
                         Call("drawOn", "table", LEFT_MARGIN, y_pos - height,
                              "table")>>, "totals")
    /\ UNCHANGED <<data, tax_rate, subtotal, tax_amount, total, table_data, stdout>>

\* Lines 188-198.
DrawTotals ==
    /\ pc = "totals"
    /\ Issue(<<Call("setFont", "font", 0, 0, "Helvetica 10"),
               Call("drawRightString", "subtotal_label", RIGHT_MARGIN - inch, y_pos,
                    "Subtotal:"),
               Call("drawRightString", "tax_label", RIGHT_MARGIN - inch,
                    y_pos - inch \div 4, "Tax (" \o DecStr(tax_rate) \o "%):"),
               Call("setFont", "font", 0, 0, "Helvetica-Bold 10"),
               Call("drawRightString", "total_label", RIGHT_MARGIN - inch,
                    y_pos - inch \div 2, "Total:"),
               Call("setFont", "font", 0, 0, "Helvetica 10"),
               Call("drawRightString", "subtotal", RIGHT_MARGIN, y_pos,
                    format_currency(subtotal, currency_symbol)),
               Call("drawRightString", "tax", RIGHT_MARGIN, y_pos - inch \div 4,
                    format_currency(tax_amount, currency_symbol)),
               Call("setFont", "font", 0, 0, "Helvetica-Bold 10"),
               Call("drawRightString", "total", RIGHT_MARGIN, y_pos - inch \div 2,
                    format_currency(total, currency_symbol))>>, "terms")
    /\ UNCHANGED <<data, y_pos, tax_rate, subtotal, tax_amount, total,
                   table_data, table_height, stdout>>

\* A terms block that follows the cursor, an inch below the totals.
DrawTermsBelowTotals ==
    /\ pc = "terms"
    /\ y_pos' = y_pos - inch
    /\ Issue(<<Call("setFont", "font", 0, 0, "Helvetica-Bold 10"),
               Call("drawString", "terms_label", LEFT_MARGIN, y_pos', "Terms:"),
               Call("setFont", "font", 0, 0, "Helvetica 10"),
               Call("drawString", "terms", LEFT_MARGIN, y_pos' - inch \div 5,
                    Get(terms, "notes", ""))>>, "save")
    /\ UNCHANGED <<data, tax_rate, subtotal, tax_amount, total,
                   table_data, table_height, stdout>>

\* Lines 201-205.
DrawTerms ==
    /\ pc = "terms"
    /\ y_pos' = BOTTOM_MARGIN + inch
    /\ Issue(<<Call("setFont", "font", 0, 0, "Helvetica-Bold 10"),
               Call("drawString", "terms_label", LEFT_MARGIN, y_pos', "Terms:"),
               Call("setFont", "font", 0, 0, "Helvetica 10"),
               Call("drawString", "terms", LEFT_MARGIN, y_pos' - inch \div 5,
                    Get(terms, "notes", ""))>>, "save")
    /\ UNCHANGED <<data, tax_rate, subtotal, tax_amount, total,
                   table_data, table_height, stdout>>

\* Lines 208-209.  The function returns and the process ends with code 0.
Save ==
    /\ pc = "save"
    /\ \/ /\ calls' = calls \o <<Call("save", "save", 0, 0, "")>>
          /\ pc' = "done"
          /\ stdout' = "Successfully generated invoice"
          /\ exit_code' = 0
          /\ UNCHANGED <<stderr, failed_at>>
       \/ \E kind \in RendererErrors :
             /\ calls' = calls \o <<Call("save", "save", 0, 0, "")>>
             /\ Raise(kind, "renderer")
             /\ UNCHANGED stdout
    /\ UNCHANGED <<data, y_pos, tax_rate, subtotal, tax_amount, total,
                   table_data, table_height>>

Next ==
    \/ Validate
    \/ InitCanvas
    \/ DrawHeader
    \/ DrawBillTo
    \/ DrawDateBlock
    \/ CalculateTotals
    \/ DrawBalanceDue
    \/ ComposeTable
    \/ DrawTable
    \/ DrawTotals
    \/ DrawTerms
    \/ Save

Spec == Init /\ [][Next]_vars

(***************************************************************************)
(* Vocabulary of the properties.                                           *)
(***************************************************************************)
Steps ==
    <<"validate", "canvas", "header", "bill_to", "dates", "calculate", "balance",
      "compose", "table", "totals", "terms", "save", "done">>

StepIndex(p) == CHOOSE i \in 1..Len(Steps) : Steps[i] = p

\* The run has gone through step p without an exception.
Completed(p) ==
    IF pc = "exited" THEN StepIndex(failed_at) > StepIndex(p)
    ELSE StepIndex(pc) > StepIndex(p)

\* The indices of the renderer calls that draw role r.
CallsOf(r) == { i \in 1..Len(calls) : calls[i].role = r }

\* v truncated to whole cents.
Floor2(v) == (v.m * 100) \div Pow10(v.e)

\* c cents is v rounded half up to 2 decimal places:
\* c/100 - 1/200 <= v < c/100 + 1/200.
IsRoundHalfUp(v, c) ==
    /\ (2 * c - 1) * Pow10(v.e) <= 200 * v.m
    /\ 200 * v.m < (2 * c + 1) * Pow10(v.e)

HalfUpCents(v) == CHOOSE c \in {Floor2(v), Floor2(v) + 1} : IsRoundHalfUp(v, c)

\* The text of an amount of c whole cents.
CentsText(c) == format_currency(Dec(c, 2), currency_symbol)

\* The value of a decimal in millionths.
Micro(v) == v.m * Pow10(6 - v.e)

\* Two decimals of the same numeric value.
SameValue(a, b) == Micro(a) = Micro(b)

AllPresent == Required \subseteq DOMAIN data

(***************************************************************************)
(* C1.  When one of the sections sender, client, invoice, items is absent  *)
(* from the input, the run ends in the validation failure (its message on  *)
(* standard error, exit code 1) and the renderer is never called.          *)
(***************************************************************************)
C1_AbsentSectionFails ==
    ~AllPresent =>
        /\ calls = <<>>
        /\ pc \in {"validate", "exited"}
        /\ pc = "exited" =>
              /\ failed_at = "validate"
              /\ stderr = MissingSections
              /\ exit_code = 1

C1_Witness ==
    /\ "items" \notin DOMAIN data
    /\ {"sender", "client", "invoice"} \subseteq DOMAIN data
    /\ pc = "exited"
    /\ exit_code = 1

(***************************************************************************)
(* C2.  An input with sender, client and invoice present and an items list *)
(* that is present and empty is not rejected by the validation.            *)
(***************************************************************************)
EmptyItemsInput ==
    /\ AllPresent
    /\ DictTruthy(sender) /\ DictTruthy(client) /\ DictTruthy(invoice_info)
    /\ items = <<>>

C2_EmptyItemsRenders ==
    EmptyItemsInput => ~(pc = "exited" /\ failed_at = "validate")

(***************************************************************************)
(* C3.  Every currency text on the page (rate and amount cells, subtotal,  *)
(* tax, total, balance due) is its value rounded half up to 2 decimal      *)
(* places.                                                                 *)
(***************************************************************************)
ShowsHalfUp(role, v) ==
    \A i \in CallsOf(role) : calls[i].arg = CentsText(HalfUpCents(v))

C3_DisplayedHalfUp ==
    /\ ShowsHalfUp("balance_due", total)
    /\ ShowsHalfUp("subtotal", subtotal)
    /\ ShowsHalfUp("tax", tax_amount)
    /\ ShowsHalfUp("total", DecAdd(subtotal, tax_amount))
    /\ \A i \in 2..Len(table_data) :
          /\ table_data[i][3] = CentsText(HalfUpCents(ToDecimal(RawRate(items[i - 1]))))
          /\ table_data[i][4] = CentsText(HalfUpCents(Product(items[i - 1])))

(***************************************************************************)
(* C4.  The tax amount is subtotal * tax_rate / 100 rounded half up to 2   *)
(* decimal places and the total is subtotal + tax; one item of quantity 2  *)
(* and rate 9.99 at tax rate 10 gives 19.98, 2.00 and 21.98.               *)
(***************************************************************************)
WidgetAtTen ==
    /\ Len(items) = 1
    /\ RawQuantity(items[1]) = Num(2, 0)
    /\ RawRate(items[1]) = Num(999, 2)
    /\ Get(financials, "tax_rate", Num(0, 1)) = Num(10, 0)

C4_TaxAndTotal ==
    Completed("calculate") =>
        /\ tax_amount.e = 2
        /\ IsRoundHalfUp(Dec(subtotal.m * tax_rate.m, subtotal.e + tax_rate.e + 2),
                         tax_amount.m)
        /\ Micro(total) = Micro(subtotal) + Micro(tax_amount)
        /\ WidgetAtTen =>
              /\ SameValue(subtotal, Dec(1998, 2))
              /\ tax_amount = Dec(200, 2)
              /\ SameValue(total, Dec(2198, 2))

C4_Witness ==
    /\ pc = "done"
    /\ WidgetAtTen
    /\ tax_amount = Dec(200, 2)

(***************************************************************************)
(* C5.  The subtotal is the sum of the unrounded products quantity * rate  *)
(* of the items, a missing quantity or rate counting as 0; it is not the   *)
(* sum of the rounded row amounts.                                         *)
(***************************************************************************)
\* quantity * rate of an item, every digit kept; 0 when either is missing.
ExactProduct(item) ==
    IF "quantity" \in DOMAIN item /\ "rate" \in DOMAIN item
    THEN Dec(item.quantity.m * item.rate.m, item.quantity.e + item.rate.e)
    ELSE Dec(0, 0)

Millionths(item) == Micro(ExactProduct(item))

RECURSIVE SumMillionths(_, _)
SumMillionths(its, n) ==
    IF n = 0 THEN 0 ELSE SumMillionths(its, n - 1) + Millionths(its[n])

RECURSIVE SumRoundedCents(_, _)
SumRoundedCents(its, n) ==
    IF n = 0 THEN 0
    ELSE SumRoundedCents(its, n - 1) + HalfUpCents(ExactProduct(its[n]))

C5_SubtotalUnrounded ==
    Completed("calculate") =>
        Micro(subtotal) = SumMillionths(items, Len(items))

\* A run whose subtotal differs from the sum of the rounded row amounts.
C5_Witness ==
    /\ pc = "done"
    /\ Micro(subtotal) # 10000 * SumRoundedCents(items, Len(items))
    /\ \E i \in 1..Len(items) : "quantity" \notin DOMAIN items[i]

(***************************************************************************)
(* C6.  The save call is issued at most once, as the last call and after   *)
(* every block has been drawn; exactly once on a run that succeeds; and a  *)
(* run in which a step before it fails ends with exit code 1 and no save   *)
(* call.                                                                   *)
(***************************************************************************)
SaveCalls == { i \in 1..Len(calls) : calls[i].op = "save" }

DrawRoles ==
    {"header", "bill_to", "dates", "balance_due", "table", "subtotal", "tax",
     "total", "terms_label", "terms"}

C6_SaveOnceAtEnd ==
    /\ Cardinality(SaveCalls) <= 1
    /\ \A i \in SaveCalls :
          /\ i = Len(calls)
          /\ Completed("terms")
          /\ \A r \in DrawRoles : \E j \in CallsOf(r) : j < i
    /\ pc = "done" => Cardinality(SaveCalls) = 1 /\ exit_code = 0
    /\ exit_code = 0 => pc = "done"
    /\ pc = "exited" =>
          /\ exit_code = 1
          /\ stdout = ""
          /\ failed_at # "save" => SaveCalls = {}

C6_Witness ==
    /\ pc = "done"
    /\ calls[Len(calls)].op = "save"
    /\ exit_code = 0

(***************************************************************************)
(* C7.  The table of n items has n + 1 rows: the header Item, Quantity,    *)
(* Rate, Amount, then one row per item in input order, whose amount cell   *)
(* shows quantity * rate rounded half up to 2 decimal places.              *)
(***************************************************************************)
C7_TableRows ==
    table_data # <<>> =>
        /\ Len(table_data) = Len(items) + 1
        /\ table_data[1] = <<"Item", "Quantity", "Rate", "Amount">>
        /\ \A i \in 1..Len(items) :
              /\ table_data[i + 1][1] =
                    (IF "description" \in DOMAIN items[i] THEN items[i].description
                     ELSE "N/A")
              /\ table_data[i + 1][4] = CentsText(HalfUpCents(ExactProduct(items[i])))

C7_Witness ==
    /\ pc = "done"
    /\ Len(items) = 2
    /\ Get(items[1], "description", "") = "Widget"
    /\ Get(items[2], "description", "") = "Consulting"
    /\ table_data[3][4] = CentsText(13)
    /\ CallsOf("table") # {}

(***************************************************************************)
(* C8.  The table's top Y is the same in every run; the totals block is    *)
(* drawn at the table's top Y minus the measured height of the table minus *)
(* half an inch, so a table taller by h puts it lower by exactly h.        *)
(***************************************************************************)
TableTop == TOP_MARGIN - 3 * inch

TotalsY == TableTop - table_height - inch \div 2

C8_TotalsBelowTable ==
    /\ \A i \in CallsOf("table") :
          /\ calls[i].op = "wrapOn" => calls[i].y = TableTop
          /\ calls[i].op = "drawOn" => calls[i].y = TableTop - table_height
    /\ \A i \in CallsOf("subtotal_label") \cup CallsOf("subtotal") :
          calls[i].y = TotalsY
    /\ \A i \in CallsOf("tax_label") \cup CallsOf("tax") :
          calls[i].y = TotalsY - inch \div 4
    /\ \A i \in CallsOf("total_label") \cup CallsOf("total") :
          calls[i].y = TotalsY - inch \div 2

\* A run whose table has a wrapped row and is taller than n + 1 single lines.
C8_Witness ==
    /\ pc = "done"
    /\ table_height > Len(table_data) * RowHeight(1)
    /\ \E i \in CallsOf("total") : calls[i].y = TotalsY - inch \div 2

(***************************************************************************)
(* C9.  The terms block is drawn at the same offset from the bottom margin *)
(* in every run, whatever the number of items and the height of the table; *)
(* a table and totals that reach into the terms block raise no error.      *)
(***************************************************************************)
TermsY == BOTTOM_MARGIN + inch

\* The totals block reaches below the top of the terms block.
Overflows == \E i \in CallsOf("total") : calls[i].y < TermsY

C9_TermsFixed ==
    /\ \A i \in CallsOf("terms_label") : calls[i].y = TermsY
    /\ \A i \in CallsOf("terms") : calls[i].y = TermsY - inch \div 5
    /\ (Overflows /\ pc = "exited") =>
          stderr \in { ErrorMessage(k, "renderer") : k \in RendererErrors }

C9_Witness ==
    /\ pc = "done"
    /\ Overflows
    /\ \E i \in CallsOf("terms") : calls[i].y = TermsY - inch \div 5

(***************************************************************************)
(* C10.  The figures of the totals block reconcile: the subtotal as shown  *)
(* plus the tax as shown is the total as shown, and the balance due is the *)
(* same text as the total.                                                 *)
(***************************************************************************)
C10_FiguresReconcile ==
    CallsOf("total") # {} =>
        \E sub \in {Floor2(subtotal), Floor2(subtotal) + 1} :
            /\ \A i \in CallsOf("subtotal") : calls[i].arg = CentsText(sub)
            /\ \A i \in CallsOf("tax") : calls[i].arg = CentsText(tax_amount.m)
            /\ \A i \in CallsOf("total") : calls[i].arg = CentsText(sub + tax_amount.m)
            /\ \A i \in CallsOf("balance_due"), j \in CallsOf("total") :
                  calls[i].arg = calls[j].arg

====
